---- MODULE Spec2Model ----
(***************************************************************************)
(* gsl::not_null<T*> as used by the two demonstration programs             *)
(* cpp_compile_time.cpp (default: terminate on contract violation) and     *)
(* cpp_runtime.cpp (GSL_THROW_ON_CONTRACT_VIOLATION).                      *)
(*                                                                         *)
(* A run is either one of the two main functions, statement by statement,  *)
(* or a client: an arbitrary bounded sequence of the same statements (and  *)
(* of the wrapper's construct / assign / get) with run-time pointer        *)
(* values, compiled in either translation unit.                            *)
(***************************************************************************)
EXTENDS Integers, Sequences, FiniteSets, TLC

\* ---------------------------------------------------------------- bounds
MaxApps == 2        \* App objects the heap can hold
MaxSlots == 2       \* not_null<App*> variables of the client
MaxSteps == 3       \* statements a client executes

\* ---------------------------------------------------------------- values
nullptr == 0
AppAddrs == 1 .. MaxApps
ParamsAddr == MaxApps + 1
Addrs == 1 .. (MaxApps + 1)
Slots == 1 .. MaxSlots
Units == {"cpp_compile_time", "cpp_runtime"}

VARIABLES
    unit,       \* the translation unit the run is compiled in
    driver,     \* "main": the unit's main; "client": arbitrary statements
    pc,         \* main: index of the next statement of main(unit)
    steps,      \* client: statements executed so far
    status,     \* "running" | "throwing" | "terminated" | "exited"
    inTry,      \* a try block with a handler encloses the next statement
    heap,       \* [Addrs -> {"unalloc", "alive", "freed"}]
    myApp,      \* std::unique_ptr<App>: the pointer it holds
    myParams,   \* std::unique_ptr<TestParams>: the pointer it holds
    wrap,       \* [Slots -> <<ptr_>> of the not_null in the slot, <<>> if none]
    entered,    \* function bodies entered, with their arguments
    invoked,    \* App methods invoked, with the this pointer
    reports,    \* calls of ReportError("null input params")
    caught,     \* runs of the catch handler
    finished,   \* "Finished..." was printed
    last        \* the statement executed last and its outcome

vars == <<unit, driver, pc, steps, status, inTry, heap, myApp, myParams,
          wrap, entered, invoked, reports, caught, finished, last>>

\* ------------------------------------------------------ enforcement mode
\* #define GSL_THROW_ON_CONTRACT_VIOLATION precedes #include "gsl/gsl" in
\* cpp_runtime.cpp only.
DefineMissing(u) == FALSE
DefineEverywhere(u) == TRUE
GSL_THROW_ON_CONTRACT_VIOLATION(u) == u = "cpp_runtime"

\* Expects(cond) of gsl_assert: nothing when cond holds; otherwise throws
\* gsl::fail_fast (a std::logic_error) or calls std::terminate().
Expects(cond) ==
    IF cond THEN "ok"
    ELSE IF GSL_THROW_ON_CONTRACT_VIOLATION(unit) THEN "throw"
    ELSE "terminate"

\* not_null(T u) : ptr_(u) { Expects(ptr_ != nullptr); }
UncheckedCtor(p) == "ok"
not_null_ctor(p) == Expects(p # nullptr)

\* The status a contract check's outcome leaves the run in.
StatusAfter(res) ==
    CASE res = "ok" -> "running"
      [] res = "throw" -> "throwing"
      [] res = "terminate" -> "terminated"

\* ------------------------------------------------------------ statements
Stmt(op, args) == [op |-> op, args |-> args]

\* The statements of main, in order; arguments are evaluated when the
\* statement is reached.  Slot 1 holds main's local not_null myApp.
main(u) ==
    IF u = "cpp_compile_time"
    THEN << Stmt("new_not_null", <<1>>),            \* line 45
            Stmt("delete", <<1>>),                  \* line 48
            Stmt("scope_exit", <<1>>),              \* line 50
            Stmt("Finished", <<>>),                 \* line 63
            Stmt("return", <<>>) >>                 \* line 64
    ELSE << Stmt("make_unique_App", <<>>),          \* line 62
            Stmt("make_unique_TestParams", <<>>),   \* line 63
            Stmt("TestAppCheck", <<myApp, myParams>>),  \* line 66
            Stmt("try", <<>>),                      \* line 69
            Stmt("reset", <<>>),                    \* line 72
            Stmt("TestApp", <<myApp, myParams>>),   \* line 74
            Stmt("RunApp", <<myApp>>),              \* line 75
            Stmt("end_try", <<>>),                  \* line 76
            Stmt("catch", <<>>),                    \* lines 77-81
            Stmt("Finished", <<>>),                 \* line 83
            Stmt("return", <<>>) >>                 \* line 84

\* Index of the statement of main(u) with this op.
At(u, op) == CHOOSE i \in DOMAIN main(u) : main(u)[i].op = op

\* The driver executes statement op(args) next.
Sel(op, args) ==
    /\ status = "running"
    /\ \/ driver = "client" /\ steps < MaxSteps
       \/ /\ driver = "main"
          /\ pc \in DOMAIN main(unit)
          /\ main(unit)[pc] = Stmt(op, args)

\* Run-time pointer values a client can hold.
AppPtrs == {nullptr} \cup {a \in AppAddrs : heap[a] # "unalloc"}
ParamsPtrs == {nullptr} \cup {a \in {ParamsAddr} : heap[a] # "unalloc"}
\* Pointers a client may dereference: null reaches the guarded boundary,
\* a dangling pointer is kept out of calls that dereference it.
CallablePtrs == {p \in AppPtrs : p = nullptr \/ heap[p] = "alive"}

\* Every statement records itself in last: its op, its arguments, the
\* outcome of its contract checks, whether it offered nullptr to a not_null
\* slot, and which not_null parameter (0: none) failed its check.
Last(op, args, res, failed) ==
    [op |-> op, args |-> args, res |-> res, failed |-> failed]

Done(op, args, res, failed) ==
    /\ last' = Last(op, args, res, failed)
    /\ status' = StatusAfter(res)
    /\ pc' = IF driver = "main" /\ res = "ok" THEN pc + 1 ELSE pc
    /\ steps' = IF driver = "client" THEN steps + 1 ELSE steps

Init ==
    /\ unit \in Units
    /\ driver \in {"main", "client"}
    /\ pc = 1
    /\ steps = 0
    /\ status = "running"
    /\ inTry = FALSE
    /\ heap = [a \in Addrs |-> "unalloc"]
    /\ myApp = nullptr
    /\ myParams = nullptr
    /\ wrap = [s \in Slots |-> <<>>]
    /\ entered = {}
    /\ invoked = {}
    /\ reports = 0
    /\ caught = 0
    /\ finished = FALSE
    /\ last = Last("start", <<>>, "ok", 0)

\* ---------------------------------------------------------- allocation
Unalloc == {a \in AppAddrs : heap[a] = "unalloc"}
Fresh == CHOOSE a \in Unalloc : \A b \in Unalloc : a <= b

Free(h, p) == IF p = nullptr THEN h ELSE [h EXCEPT ![p] = "freed"]

\* ------------------------------------------------- the wrapper's own API
\* gsl::not_null<App *> myApp = new App("Poker");
NewNotNull(s) ==
    /\ Sel("new_not_null", <<s>>)
    /\ wrap[s] = <<>>
    /\ Unalloc # {}
    /\ LET a == Fresh
           res == not_null_ctor(a)
       IN /\ heap' = [heap EXCEPT ![a] = "alive"]
          /\ wrap' = IF res = "ok" THEN [wrap EXCEPT ![s] = <<a>>] ELSE wrap
          /\ Done("new_not_null", <<s>>, res, IF res = "ok" THEN 0 ELSE 1)
    /\ UNCHANGED <<unit, driver, inTry, myApp, myParams, entered, invoked,
                   reports, caught, finished>>

\* gsl::not_null<App *> w = p;   with p a run-time value
Construct(s, p) ==
    /\ Sel("construct", <<s, p>>)
    /\ wrap[s] = <<>>
    /\ LET res == not_null_ctor(p)
       IN /\ wrap' = IF res = "ok" THEN [wrap EXCEPT ![s] = <<p>>] ELSE wrap
          /\ Done("construct", <<s, p>>, res, IF res = "ok" THEN 0 ELSE 1)
    /\ UNCHANGED <<unit, driver, inTry, heap, myApp, myParams, entered,
                   invoked, reports, caught, finished>>

\* w = p;   the right side is converted by not_null(T), then copy-assigned
AssignUnchecked(s, p) ==
    /\ Sel("assign", <<s, p>>)
    /\ wrap[s] # <<>>
    /\ wrap' = [wrap EXCEPT ![s] = <<p>>]
    /\ Done("assign", <<s, p>>, "ok", 0)
    /\ UNCHANGED <<unit, driver, inTry, heap, myApp, myParams, entered,
                   invoked, reports, caught, finished>>

Assign(s, p) ==
    /\ Sel("assign", <<s, p>>)
    /\ wrap[s] # <<>>
    /\ LET res == not_null_ctor(p)
       IN /\ wrap' = IF res = "ok" THEN [wrap EXCEPT ![s] = <<p>>] ELSE wrap
          /\ Done("assign", <<s, p>>, res, IF res = "ok" THEN 0 ELSE 1)
    /\ UNCHANGED <<unit, driver, inTry, heap, myApp, myParams, entered,
                   invoked, reports, caught, finished>>

\* T get() const { Ensures(ptr_ != nullptr); return ptr_; }
Get(s) ==
    /\ Sel("get", <<s>>)
    /\ wrap[s] # <<>>
    /\ Done("get", <<s, wrap[s][1]>>, Expects(wrap[s][1] # nullptr), 0)
    /\ UNCHANGED <<unit, driver, inTry, heap, myApp, myParams, wrap, entered,
                   invoked, reports, caught, finished>>

\* delete myApp;   the operand is the wrapper, converted by operator T()
DeleteAndNull(s) ==
    /\ Sel("delete", <<s>>)
    /\ wrap[s] # <<>>
    /\ heap[wrap[s][1]] = "alive"
    /\ wrap[s][1] # myApp
    /\ heap' = Free(heap, wrap[s][1])
    /\ wrap' = [wrap EXCEPT ![s] = <<nullptr>>]
    /\ Done("delete", <<s>>, "ok", 0)
    /\ UNCHANGED <<unit, driver, inTry, myApp, myParams, entered, invoked,
                   reports, caught, finished>>

Delete(s) ==
    /\ Sel("delete", <<s>>)
    /\ wrap[s] # <<>>
    /\ heap[wrap[s][1]] = "alive"
    /\ wrap[s][1] # myApp
    /\ heap' = Free(heap, wrap[s][1])
    /\ Done("delete", <<s>>, "ok", 0)
    /\ UNCHANGED <<unit, driver, inTry, myApp, myParams, wrap, entered,
                   invoked, reports, caught, finished>>

\* }   the wrapper's scope ends; not_null has no destructor of its own
ScopeExitOwning(s) ==
    /\ Sel("scope_exit", <<s>>)
    /\ wrap[s] # <<>>
    /\ wrap' = [wrap EXCEPT ![s] = <<>>]
    /\ heap' = Free(heap, wrap[s][1])
    /\ Done("scope_exit", <<s, wrap[s][1]>>, "ok", 0)
    /\ UNCHANGED <<unit, driver, inTry, myApp, myParams, entered, invoked,
                   reports, caught, finished>>

ScopeExit(s) ==
    /\ Sel("scope_exit", <<s>>)
    /\ wrap[s] # <<>>
    /\ wrap' = [wrap EXCEPT ![s] = <<>>]
    /\ Done("scope_exit", <<s, wrap[s][1]>>, "ok", 0)
    /\ UNCHANGED <<unit, driver, inTry, heap, myApp, myParams, entered,
                   invoked, reports, caught, finished>>

\* ------------------------------------------------------------ the owners
\* auto myApp = std::make_unique<App>("Poker");
MakeUniqueApp ==
    /\ Sel("make_unique_App", <<>>)
    /\ myApp = nullptr
    /\ Unalloc # {}
    /\ heap' = [heap EXCEPT ![Fresh] = "alive"]
    /\ myApp' = Fresh
    /\ Done("make_unique_App", <<>>, "ok", 0)
    /\ UNCHANGED <<unit, driver, inTry, myParams, wrap, entered, invoked,
                   reports, caught, finished>>

\* auto myParams = std::make_unique<TestParams>();
MakeUniqueTestParams ==
    /\ Sel("make_unique_TestParams", <<>>)
    /\ myParams = nullptr
    /\ heap[ParamsAddr] = "unalloc"
    /\ heap' = [heap EXCEPT ![ParamsAddr] = "alive"]
    /\ myParams' = ParamsAddr
    /\ Done("make_unique_TestParams", <<>>, "ok", 0)
    /\ UNCHANGED <<unit, driver, inTry, myApp, wrap, entered, invoked,
                   reports, caught, finished>>

\* myApp.reset(nullptr);
Reset ==
    /\ Sel("reset", <<>>)
    /\ heap' = Free(heap, myApp)
    /\ myApp' = nullptr
    /\ Done("reset", <<>>, "ok", 0)
    /\ UNCHANGED <<unit, driver, inTry, myParams, wrap, entered, invoked,
                   reports, caught, finished>>

\* ---------------------------------------------------------- the functions
Entry(fn, args) == [fn |-> fn, args |-> args]

\* if (pApp && pParams)
NullCheckOr(pApp, pParams) == pApp # nullptr \/ pParams # nullptr
NullCheck(pApp, pParams) == pApp # nullptr /\ pParams # nullptr

\* void TestAppCheck(App* pApp, TestParams* pParams)
TestAppCheck(pApp, pParams) ==
    /\ Sel("TestAppCheck", <<pApp, pParams>>)
    /\ entered' = entered \cup {Entry("TestAppCheck", <<pApp, pParams>>)}
    /\ reports' = IF NullCheck(pApp, pParams) THEN reports ELSE reports + 1
    /\ Done("TestAppCheck", <<pApp, pParams>>, "ok", 0)
    /\ UNCHANGED <<unit, driver, inTry, heap, myApp, myParams, wrap, invoked,
                   caught, finished>>

\* The parameters gsl::not_null<App *> pApp, gsl::not_null<TestParams *>
\* pParams are initialised from the arguments in an order the language
\* leaves open; the first check that fails ends the call.
\* Result: <<outcome, index of the parameter that failed or 0>>.
RawParams(p, q, order) == <<"ok", 0>>
TestAppParams(p, q, order) ==
    LET r1 == not_null_ctor(p)
        r2 == not_null_ctor(q)
    IN IF order = "lr"
       THEN IF r1 # "ok" THEN <<r1, 1>>
            ELSE IF r2 # "ok" THEN <<r2, 2>> ELSE <<"ok", 0>>
       ELSE IF r2 # "ok" THEN <<r2, 2>>
            ELSE IF r1 # "ok" THEN <<r1, 1>> ELSE <<"ok", 0>>

\* void TestApp(gsl::not_null<App *> pApp, gsl::not_null<TestParams *> pParams)
TestApp(p, q) ==
    /\ Sel("TestApp", <<p, q>>)
    /\ \E order \in {"lr", "rl"} :
         LET r == TestAppParams(p, q, order)
         IN /\ entered' = IF r[1] = "ok"
                           THEN entered \cup {Entry("TestApp", <<p, q>>)}
                           ELSE entered
            /\ Done("TestApp", <<p, q>>, r[1], r[2])
    /\ UNCHANGED <<unit, driver, inTry, heap, myApp, myParams, wrap, invoked,
                   reports, caught, finished>>

\* The parameter gsl::not_null<App *> pApp, initialised from the argument.
RawParam(p) == "ok"
RunAppParam(p) == not_null_ctor(p)
DiagnoseAppParam(p) == not_null_ctor(p)

\* pApp->  is operator->(), which returns get()
Arrow(p, method) == IF Expects(p # nullptr) = "ok" THEN {<<method, p>>} ELSE {}

\* void RunApp(gsl::not_null<App *> pApp) { pApp->Run(); pApp->Shutdown(); }
RunApp(p) ==
    /\ Sel("RunApp", <<p>>)
    /\ LET res == RunAppParam(p)
       IN /\ entered' = IF res = "ok"
                         THEN entered \cup {Entry("RunApp", <<p>>)}
                         ELSE entered
          /\ invoked' = IF res = "ok"
                         THEN invoked \cup Arrow(p, "Run") \cup Arrow(p, "Shutdown")
                         ELSE invoked
          /\ Done("RunApp", <<p>>,
                  IF res = "ok" THEN Expects(p # nullptr) ELSE res,
                  IF res = "ok" THEN 0 ELSE 1)
    /\ UNCHANGED <<unit, driver, inTry, heap, myApp, myParams, wrap, reports,
                   caught, finished>>

\* void DiagnoseApp(gsl::not_null<App *> pApp) { pApp->Diagnose(); }
DiagnoseApp(p) ==
    /\ Sel("DiagnoseApp", <<p>>)
    /\ LET res == DiagnoseAppParam(p)
       IN /\ entered' = IF res = "ok"
                         THEN entered \cup {Entry("DiagnoseApp", <<p>>)}
                         ELSE entered
          /\ invoked' = IF res = "ok"
                         THEN invoked \cup Arrow(p, "Diagnose")
                         ELSE invoked
          /\ Done("DiagnoseApp", <<p>>,
                  IF res = "ok" THEN Expects(p # nullptr) ELSE res,
                  IF res = "ok" THEN 0 ELSE 1)
    /\ UNCHANGED <<unit, driver, inTry, heap, myApp, myParams, wrap, reports,
                   caught, finished>>

\* ------------------------------------------------- try, catch, terminate
\* try {
Try ==
    /\ Sel("try", <<>>)
    /\ ~inTry
    /\ inTry' = TRUE
    /\ Done("try", <<>>, "ok", 0)
    /\ UNCHANGED <<unit, driver, heap, myApp, myParams, wrap, entered,
                   invoked, reports, caught, finished>>

\* }   the try block ends normally: its handler is skipped
EndTry ==
    /\ Sel("end_try", <<>>)
    /\ inTry
    /\ inTry' = FALSE
    /\ last' = Last("end_try", <<>>, "ok", 0)
    /\ pc' = IF driver = "main" THEN pc + 2 ELSE pc
    /\ steps' = IF driver = "client" THEN steps + 1 ELSE steps
    /\ UNCHANGED <<unit, driver, status, heap, myApp, myParams, wrap, entered,
                   invoked, reports, caught, finished>>

\* catch (std::exception& e) { std::cout << e.what() << "\n";
\*                             ReportError("null input params"); }
\* gsl::fail_fast is a std::logic_error, so this handler takes it.
CatchSilently ==
    /\ status = "throwing"
    /\ inTry
    /\ status' = "running"
    /\ inTry' = FALSE
    /\ caught' = caught + 1
    /\ last' = Last("catch", <<>>, "ok", 0)
    /\ pc' = IF driver = "main" THEN At(unit, "catch") + 1 ELSE pc
    /\ UNCHANGED <<unit, driver, steps, heap, myApp, myParams, wrap, entered,
                   invoked, reports, finished>>

Catch ==
    /\ status = "throwing"
    /\ inTry
    /\ status' = "running"
    /\ inTry' = FALSE
    /\ caught' = caught + 1
    /\ reports' = reports + 1
    /\ last' = Last("catch", <<>>, "ok", 0)
    /\ pc' = IF driver = "main" THEN At(unit, "catch") + 1 ELSE pc
    /\ UNCHANGED <<unit, driver, steps, heap, myApp, myParams, wrap, entered,
                   invoked, finished>>

\* An exception no handler takes: std::terminate().
UncaughtTerminate ==
    /\ status = "throwing"
    /\ ~inTry
    /\ status' = "terminated"
    /\ last' = Last("terminate", <<>>, "terminate", 0)
    /\ UNCHANGED <<unit, driver, pc, steps, inTry, heap, myApp, myParams,
                   wrap, entered, invoked, reports, caught, finished>>

\* std::cout << "Finished...\n";
Finished ==
    /\ Sel("Finished", <<>>)
    /\ ~inTry
    /\ ~finished
    /\ finished' = TRUE
    /\ Done("Finished", <<>>, "ok", 0)
    /\ UNCHANGED <<unit, driver, inTry, heap, myApp, myParams, wrap, entered,
                   invoked, reports, caught>>

\* }   main returns: its locals are destroyed, the unique_ptrs delete
\* what they hold, the wrappers delete nothing.
Return ==
    /\ Sel("return", <<>>)
    /\ ~inTry
    /\ status' = "exited"
    /\ heap' = Free(Free(heap, myApp), myParams)
    /\ myApp' = nullptr
    /\ myParams' = nullptr
    /\ wrap' = [s \in Slots |-> <<>>]
    /\ last' = Last("return", <<>>, "ok", 0)
    /\ pc' = IF driver = "main" THEN pc + 1 ELSE pc
    /\ steps' = IF driver = "client" THEN steps + 1 ELSE steps
    /\ UNCHANGED <<unit, driver, inTry, entered, invoked, reports, caught,
                   finished>>

\* ------------------------------------------------------------------ Next
Next ==
    \/ \E s \in Slots : NewNotNull(s)
    \/ \E s \in Slots : \E p \in AppPtrs : Construct(s, p)
    \/ \E s \in Slots : \E p \in AppPtrs : Assign(s, p)
    \/ \E s \in Slots : Get(s)
    \/ \E s \in Slots : Delete(s)
    \/ \E s \in Slots : ScopeExit(s)
    \/ MakeUniqueApp
    \/ MakeUniqueTestParams
    \/ Reset
    \/ \E p \in AppPtrs : \E q \in ParamsPtrs : TestAppCheck(p, q)
    \/ \E p \in AppPtrs : \E q \in ParamsPtrs : TestApp(p, q)
    \/ \E p \in CallablePtrs : RunApp(p)
    \/ \E p \in CallablePtrs : DiagnoseApp(p)
    \/ Try
    \/ EndTry
    \/ Catch
    \/ UncaughtTerminate
    \/ Finished
    \/ Return

Spec == Init /\ [][Next]_vars

\* A single thread: a statement that can run does run, and an exception in
\* flight reaches its handler or std::terminate.
FairSpec == Init /\ [][Next]_vars /\ WF_vars(Next)

\* ============================================================ properties
StrictDynamic == unit = "cpp_runtime"
TerminateOnViolation == unit = "cpp_compile_time"

\* The statement executed last offered nullptr to a not_null slot.
NullOffered ==
    \/ last.op \in {"construct", "assign"} /\ last.args[2] = nullptr
    \/ last.op \in {"RunApp", "DiagnoseApp"} /\ last.args[1] = nullptr
    \/ last.op = "TestApp"
          /\ (last.args[1] = nullptr \/ last.args[2] = nullptr)

\* The failure the build's mode prescribes for a violated contract.
ModeFailure == IF StrictDynamic THEN "throw" ELSE "terminate"

\* C1: every wrapper that exists holds a non-null handle, and get returns
\* a non-null handle, whatever was constructed, assigned (with or without
\* success) or deleted before.
C1_NonNull ==
    /\ \A s \in Slots : wrap[s] # <<>> => wrap[s][1] # nullptr
    /\ last.op = "get" => last.res = "ok" /\ last.args[2] # nullptr

\* get on a wrapper whose referent was deleted: dangling, not null.
C1_Witness ==
    /\ last.op = "get"
    /\ heap[last.args[2]] = "freed"

\* C2: with GSL_THROW_ON_CONTRACT_VIOLATION, constructing a wrapper from a
\* run-time nullptr throws, no wrapper comes to exist, and a handler in
\* scope catches the exception, leaving every wrapper as it was.
C2_StrictThrows ==
    /\ [](StrictDynamic /\ last.op = "construct" /\ last.args[2] = nullptr
            => /\ last.res = "throw"
               /\ status = "throwing"
               /\ wrap[last.args[1]] = <<>>)
    /\ [][StrictDynamic /\ status = "throwing" /\ inTry
            => status' = "running" /\ caught' = caught + 1 /\ wrap' = wrap]_vars

C2_Witness ==
    /\ StrictDynamic
    /\ last.op = "construct"
    /\ last.args[2] = nullptr
    /\ status = "throwing"
    /\ inTry

\* C3: assigning nullptr to an existing wrapper fails the way the build's
\* mode prescribes for construction; the assignment never completes, the
\* failure is signalled, and the wrapper keeps its non-null value.
C3_AssignRevalidates ==
    /\ [](last.op = "assign" /\ last.args[2] = nullptr
            => /\ last.res = ModeFailure
               /\ status = StatusAfter(ModeFailure)
               /\ wrap[last.args[1]] # <<>>
               /\ wrap[last.args[1]][1] # nullptr)
    /\ [][last'.op = "assign" /\ last'.args[2] = nullptr
            => wrap' = wrap /\ status' # "running"]_vars

C3_Witness ==
    /\ last.op = "assign"
    /\ last.args[2] = nullptr
    /\ wrap[last.args[1]] # <<>>
    /\ status = "throwing"

\* C4: without the define, constructing a wrapper from a run-time nullptr
\* terminates the process: no exception is in flight, no handler ever
\* runs, no wrapper comes to exist and no statement executes afterwards.
C4_TerminateMode ==
    /\ [](TerminateOnViolation
            => /\ caught = 0
               /\ status # "throwing"
               /\ (last.op = "construct" /\ last.args[2] = nullptr
                     => /\ last.res = "terminate"
                        /\ status = "terminated"
                        /\ wrap[last.args[1]] = <<>>))
    /\ [][status = "terminated" => UNCHANGED vars]_vars

\* Terminated inside a try block whose handler did not run.
C4_Witness ==
    /\ TerminateOnViolation
    /\ last.op = "construct"
    /\ last.args[2] = nullptr
    /\ status = "terminated"
    /\ inTry
    /\ ~finished

\* C5: a statement that offers nullptr to a not_null slot never completes;
\* the exception it throws is either caught by the handler, which reports
\* it, or - with no handler - ends in termination, and one of the two
\* always follows.
C5_NoSilentFailure ==
    /\ [](NullOffered => last.res = ModeFailure /\ status = StatusAfter(ModeFailure))
    /\ [][status = "throwing"
            => \/ ~inTry /\ status' = "terminated"
               \/ /\ inTry
                  /\ status' = "running"
                  /\ caught' = caught + 1
                  /\ reports' = reports + 1]_vars
    /\ ((status = "throwing" /\ ~inTry) ~> (status = "terminated"))
    /\ ((status = "throwing" /\ inTry) ~> (last.op = "catch"))

\* An exception thrown outside every try block ended in std::terminate.
C5_Witness ==
    /\ StrictDynamic
    /\ last.op = "terminate"
    /\ status = "terminated"
    /\ caught = 1

\* C6: the bodies of RunApp, DiagnoseApp and TestApp are entered with
\* non-null arguments only, no App method is invoked on nullptr, and a
\* call with a null argument fails, as the mode prescribes, before the
\* body.
GuardedFns == {"RunApp", "DiagnoseApp", "TestApp"}

C6_BodyNeverNull ==
    /\ \A e \in entered :
          e.fn \in GuardedFns => \A i \in DOMAIN e.args : e.args[i] # nullptr
    /\ \A m \in invoked : m[2] # nullptr
    /\ last.op \in GuardedFns /\ NullOffered
          => /\ last.res = ModeFailure
             /\ last.failed # 0
             /\ Entry(last.op, last.args) \notin entered

C6_Witness ==
    /\ last.op = "RunApp"
    /\ last.args[1] = nullptr
    /\ last.res = "throw"
    /\ \E e \in entered : e.fn = "RunApp"

\* C7: the end of a wrapper's scope leaves the heap and every other
\* wrapper as they were; the heap changes only by new, make_unique,
\* delete, reset and the unique_ptrs' destruction at return, which frees
\* nothing but what the unique_ptrs hold.
OwnerOps == {"new_not_null", "make_unique_App", "make_unique_TestParams",
             "delete", "reset", "return"}

C7_NoOwnership ==
    /\ [][last'.op = "scope_exit"
            => /\ heap' = heap
               /\ \A t \in Slots \ {last'.args[1]} : wrap'[t] = wrap[t]]_vars
    /\ [][heap' # heap => last'.op \in OwnerOps]_vars
    /\ [][last'.op = "return"
            => \A a \in Addrs : heap'[a] # heap[a] => a \in {myApp, myParams}]_vars

\* A wrapper went out of scope; its referent is alive and another wrapper
\* still refers to it.
C7_Witness ==
    /\ last.op = "scope_exit"
    /\ heap[last.args[2]] = "alive"
    /\ \E t \in Slots : wrap[t] = <<last.args[2]>>

\* C9: in the main of cpp_runtime.cpp, TestApp after the reset throws on
\* its parameter pApp; the bodies of TestApp and RunApp are never entered;
\* the handler runs once and reports once; main prints "Finished..." and
\* returns.
RuntimeMain == driver = "main" /\ unit = "cpp_runtime"

C9_ScenarioC ==
    /\ [](RuntimeMain
            => /\ last.op = "TestApp"
                    => /\ last.args[1] = nullptr
                       /\ last.res = "throw"
                       /\ last.failed = 1
               /\ \A e \in entered : e.fn = "TestAppCheck"
               /\ invoked = {}
               /\ caught <= 1
               /\ reports = caught
               /\ finished => caught = 1
               /\ status # "terminated")
    /\ (RuntimeMain => <>(finished /\ status = "exited"))

C9_Witness ==
    /\ RuntimeMain
    /\ status = "exited"
    /\ finished
    /\ caught = 1
    /\ reports = 1

\* C10: TestAppCheck never raises and reports exactly when one of its two
\* pointers is null; under GSL_THROW_ON_CONTRACT_VIOLATION TestApp throws
\* exactly when one of its two pointers is null, and otherwise enters its
\* body.
AnyNull(args) == args[1] = nullptr \/ args[2] = nullptr

C10_Equivalence ==
    /\ [][last'.op = "TestAppCheck"
            => /\ last'.res = "ok"
               /\ status' = "running"
               /\ reports' = IF AnyNull(last'.args) THEN reports + 1 ELSE reports]_vars
    /\ [][StrictDynamic /\ last'.op = "TestApp"
            => /\ last'.res = IF AnyNull(last'.args) THEN "throw" ELSE "ok"
               /\ reports' = reports]_vars

\* The same null argument was given to both: the check reported it, the
\* wrapper parameters threw.
C10_Witness ==
    /\ StrictDynamic
    /\ last.op = "TestApp"
    /\ last.res = "throw"
    /\ Entry("TestAppCheck", last.args) \in entered
    /\ reports >= 1

====
